---------------------------- MODULE Spec2Model ----------------------------
(***************************************************************************)
(* API-key issuance, validation and daily-quota metering of                *)
(* src/api_auth.py (class APIKeyManager), as a state machine.              *)
(*                                                                         *)
(* The key store is the SQLite table api_keys.  Every call opens its own   *)
(* connection, so concurrent calls of validate_api_key interleave at the   *)
(* granularity of their SQL statements.  Python's sqlite3 module opens a   *)
(* transaction implicitly before an UPDATE or INSERT and not before a      *)
(* SELECT: a SELECT reads the last committed table, an UPDATE takes the    *)
(* database write lock and holds it until commit (or until the connection  *)
(* is closed without commit, which rolls back), and the changes of an open *)
(* transaction are invisible to the other connections until the commit.    *)
(*                                                                         *)
(* Time is counted in ticks of half a day, on one clock: the process is    *)
(* taken to run in UTC, so that SQLite's CURRENT_TIMESTAMP and Python's    *)
(* datetime.now() read the same clock.                                     *)
(***************************************************************************)
EXTENDS Integers, Sequences, FiniteSets, TLC

\* ------------------------------------------------------------------ bounds

\* Concurrent request handlers.
NumCallers == 2
\* Rows of api_keys.
MaxKeys == 1
\* A sequential run begins no call on a key whose requests_made reached this.
MaxMade == 102
\* Ticks per calendar day.
TicksPerDay == 2
\* The clock visits the ticks 0..Horizon and, a validity window later,
\* ValidityTicks..ValidityTicks+Horizon.
Horizon == 2

\* Rows of api_keys in a run of the issuance specification.
StoreKeys == 2
\* Such a run begins no call on a key whose requests_made reached this.
StoreMade == 1

\* A run of the gate specification takes no request once this many Valid
\* verdicts were returned to the gate.
MaxValid == 2

\* A run of the fault specification meets at most this many storage faults.
MaxFaults == 2

\* ------------------------------------------------------- program constants

FreeLimit == 100
BasicLimit == 1000
ProLimit == 10000
EnterpriseLimit == -1
DefaultLimit == 100
ValidityDays == 365
KeyIdLen == 12
TokenLen == 43

NULL == "NULL"
\* A TIMESTAMP column that holds NULL.
Never == 0 - 1

\* ------------------------------------------------------------ credentials

Tag == <<"t", "s", "x", "_">>

\* A token of secrets.token_urlsafe(32): 43 characters.  The tokens of the
\* model are an 8-character head (the part that enters key_id) of one
\* character repeated and a tail of another.
Token(p, s) == [i \in 1..TokenLen |-> IF i <= KeyIdLen - Len(Tag) THEN p ELSE s]

Tokens == {Token("a", "a")}

\* api_key = f"tsx_{token}"
MakeKey(tok) == Tag \o tok

\* s[:n]
Prefix(s, n) == SubSeq(s, 1, IF Len(s) < n THEN Len(s) ELSE n)

\* s.startswith(t)
StartsWith(s, t) == Len(s) >= Len(t) /\ SubSeq(s, 1, Len(t)) = t

\* hashlib.sha256(s).hexdigest(): collision-free on the strings of the model.
Sha256(s) == <<"sha256", s>>

\* What a caller may present: nothing, a token without the tag, the public
\* key_id of a credential, and the full credentials.
Credentials == {MakeKey(t) : t \in Tokens \cup {Token("a", "b")}}
Presented == {<< >>} \cup {Token("a", "b")}
             \cup {Prefix(k, KeyIdLen) : k \in Credentials} \cup Credentials

\* The tokens the generator draws in a run of the issuance specification:
\* two that agree on the head key_id keeps and differ after it, and one that
\* differs in the head.
StoreTokens == {Token("a", "a"), Token("a", "b"), Token("b", "b")}

\* What a caller may present there: nothing, a token without the tag, the
\* key_id of each credential, the credentials, and one never issued.
StorePresented ==
    {<< >>} \cup {Token("a", "b")}
    \cup {Prefix(MakeKey(t), KeyIdLen) : t \in StoreTokens}
    \cup {MakeKey(t) : t \in StoreTokens \cup {Token("b", "a")}}

\* "Bearer "
Bearer == <<"B", "e", "a", "r", "e", "r", " ">>

\* s.replace('Bearer ', '')
RECURSIVE StripBearer(_)
StripBearer(s) ==
    IF Len(s) < Len(Bearer) THEN s
    ELSE IF StartsWith(s, Bearer)
         THEN StripBearer(SubSeq(s, Len(Bearer) + 1, Len(s)))
         ELSE <<Head(s)>> \o StripBearer(Tail(s))

\* The headers of a request: X-API-Key and Authorization, each a string,
\* empty when the header is absent.
Header(x, a) == [x_api_key |-> x, authorization |-> a]

\* Lines 179-182: the credential of a request.
HeaderKey(h) ==
    LET k == IF h.x_api_key # << >> THEN h.x_api_key ELSE h.authorization
    IN IF StartsWith(k, Bearer) THEN StripBearer(k) ELSE k

\* The requests of the gate specification: without credential, with the
\* scheme and nothing after it, with a token without the tag, and with the
\* credentials in either header.
Headers ==
    {Header(<< >>, << >>), Header(<< >>, Bearer), Header(Token("a", "b"), << >>)}
    \cup {Header(k, << >>) : k \in Credentials}
    \cup {Header(<< >>, Bearer \o k) : k \in Credentials}

\* ------------------------------------------------------------------- time

ValidityTicks == ValidityDays * TicksPerDay

\* datetime.date()
Day(t) == t \div TicksPerDay

\* ------------------------------------------------------------------ plans

Plans == {"free", "basic", "pro", "enterprise"}
PlanInputs == Plans \cup {"gold"}
Emails == {"ann@x.io", "bob@y.org"}
Names == {"Ann"}

\* limits.get(plan_type, 100)
LimitOf(plan) ==
    CASE plan = "free" -> FreeLimit
      [] plan = "basic" -> BasicLimit
      [] plan = "pro" -> ProLimit
      [] plan = "enterprise" -> EnterpriseLimit
      [] OTHER -> DefaultLimit

Max(a, b) == IF a >= b THEN a ELSE b

\* ---------------------------------------------------------------- verdicts

ErrFormat == "Invalid API key format"
ErrNotFound == "API key not found"
ErrDeactivated == "API key has been deactivated"
ErrExpired == "API key has expired"
ErrLimit == "Daily API limit exceeded"

Invalid(err) == [valid |-> FALSE, error |-> err]

\* No call has returned yet.
NoVerdict == Invalid(NULL)

\* Mutant of Remaining: the count before this call's own increment.
RemainingStale(limit, made) ==
    IF limit > 0 THEN Max(0, limit - made) ELSE "unlimited"

\* max(0, limit - requests_made - 1) if limit > 0 else "unlimited"
Remaining(limit, made) ==
    IF limit > 0 THEN Max(0, limit - made - 1) ELSE "unlimited"

Valid(email, plan, limit, made) ==
    [valid |-> TRUE, user_email |-> email, plan |-> plan,
     requests_remaining |-> Remaining(limit, made)]

\* ------------------------------------------------------------------ state

VARIABLES
    api_keys,     \* the committed rows of table api_keys, in rowid order
    now,          \* the clock
    writer,       \* the caller whose connection holds the write lock, or 0
    pc,           \* each caller's position in validate_api_key
    api_key,      \* the credential each caller presented
    row,          \* the row each caller fetched (its snapshot), or NULL
    requests_made,\* each caller's local requests_made
    resetPending, \* whether the caller's open transaction holds the reset
    verdict,      \* what each caller's last call returned, or NULL
    pre,          \* history: api_keys as it was when the caller's call began
    served,       \* history: per row, the day of its last Valid verdict, the
                  \* number of Valid verdicts returned for it on that day
                  \* and the requests_remaining of the last of them
    issue,        \* the last call of generate_api_key not yet returned from:
                  \* its arguments, the key it drew, the rows it found, its
                  \* return value
    issued,       \* history: what generate_api_key returned for each row
    api_usage,    \* the committed rows of table api_usage, in rowid order
    response,     \* what each gated request was answered, or NoResponse
    valids,       \* history: the Valid verdicts returned to the gate
    faults,       \* history: the storage faults met (the calls of log_usage
                  \* and the statements of validate_api_key that raised)
    body,         \* the JSON body of the request each handler thread serves
                  \* at the issuance endpoint, or NoBody
    faulted       \* history: whether a statement of the caller's call of
                  \* validate_api_key met a storage fault

vars == <<api_keys, now, writer, pc, api_key, row, requests_made,
          resetPending, verdict, pre, served, issue, issued, api_usage,
          response, valids, faults, body, faulted>>

\* What the operations of table api_keys leave alone, and what the request
\* gate adds to the state.
issueVars == <<issue, issued>>
gateVars == <<api_usage, response, valids, faults>>
\* What only the issuance endpoint and the storage faults write.
callVars == <<body, faulted>>

Callers == 1..NumCallers

\* The rows whose key_hash is h, in rowid order.
Matches(rows, h) == {i \in 1..Len(rows) : rows[i].key_hash = h}
MinOf(S) == CHOOSE i \in S : \A j \in S : i <= j

\* Mutant of NewRow: the INSERT leaves request_limit to the column default.
NewRowDefaultLimit(id, key, email, name, plan, t) ==
    [id |-> id, key_id |-> Prefix(key, KeyIdLen), key_hash |-> Sha256(key),
     user_email |-> email, user_name |-> name, plan_type |-> plan,
     requests_made |-> 0, request_limit |-> DefaultLimit,
     created_at |-> t, expires_at |-> t + ValidityTicks,
     is_active |-> TRUE, last_used |-> Never]

\* The row generate_api_key inserts.
NewRow(id, key, email, name, plan, t) ==
    [id |-> id, key_id |-> Prefix(key, KeyIdLen), key_hash |-> Sha256(key),
     user_email |-> email, user_name |-> name, plan_type |-> plan,
     requests_made |-> 0, request_limit |-> LimitOf(plan),
     created_at |-> t, expires_at |-> t + ValidityTicks,
     is_active |-> TRUE, last_used |-> Never]

\* generate_api_key returned None.
None == [ok |-> FALSE]

\* The dictionary generate_api_key returns.
Result(key, plan, t) ==
    [ok |-> TRUE, api_key |-> key, plan |-> plan,
     daily_limit |-> LimitOf(plan), expires_at |-> t + ValidityTicks]

\* No call of generate_api_key is about to return.
NoIssue == [called |-> FALSE]

\* What a gated request is answered: the status, the success, code and error
\* of the body, and whether the response is the protected handler's.
Answer(status, success, code, error, handled) ==
    [status |-> status, success |-> success, code |-> code, error |-> error,
     handled |-> handled]

\* The handler thread serves no request of the issuance endpoint.
NoBody == [sent |-> FALSE]

\* The gated request has not been answered.
NoResponse == Answer(0, FALSE, NULL, NULL, FALSE)

\* The row log_usage inserts.
UsageRow(id, key_id, endpoint, ip_address, user_agent, t) ==
    [id |-> id, key_id |-> key_id, endpoint |-> endpoint, timestamp |-> t,
     ip_address |-> ip_address, user_agent |-> user_agent]

\* ------------------------------------------------------------------ init

Locals0 ==
    /\ writer = 0
    /\ pc = [c \in Callers |-> "idle"]
    /\ api_key = [c \in Callers |-> << >>]
    /\ row = [c \in Callers |-> NULL]
    /\ requests_made = [c \in Callers |-> 0]
    /\ resetPending = [c \in Callers |-> FALSE]
    /\ verdict = [c \in Callers |-> NoVerdict]
    /\ pre = [c \in Callers |-> << >>]
    /\ issue = NoIssue
    /\ api_usage = << >>
    /\ response = [c \in Callers |-> NoResponse]
    /\ valids = 0
    /\ faults = 0
    /\ body = [c \in Callers |-> NoBody]
    /\ faulted = [c \in Callers |-> FALSE]

\* A manager constructed on a new database file: both tables empty.
InitFresh ==
    /\ api_keys = << >>
    /\ served = << >>
    /\ issued = << >>
    /\ now = 0
    /\ Locals0

\* A row an earlier process left in the database file, which outlives the
\* process (CREATE TABLE IF NOT EXISTS): a key of a finite plan issued at
\* tick 0 and used made times since.
PersistedRow(plan, made) ==
    [NewRow(1, MakeKey(Token("a", "a")), "ann@x.io", "Ann", plan, 0)
        EXCEPT !.requests_made = made, !.last_used = 0]

\* A manager constructed on the database file as it is.
InitPersisted ==
    /\ api_keys \in {<< >>} \cup
          {<<PersistedRow(p, LimitOf(p) - d)>> :
              p \in {"free", "basic", "pro"}, d \in {0, 1}}
    /\ served = [i \in 1..Len(api_keys) |->
                   [day |-> 0, valid |-> api_keys[i].requests_made,
                    remaining |-> Max(0, api_keys[i].request_limit
                                           - api_keys[i].requests_made)]]
    /\ issued = [i \in 1..Len(api_keys) |->
                   Result(MakeKey(Token("a", "a")), api_keys[i].plan_type, 0)]
    /\ now = 0
    /\ Locals0

\* ---------------------------------------------------------------- actions

\* Mutant of Generate: the INSERT is never committed.
GenerateNoCommit(email, name, plan, tok) ==
    /\ writer = 0
    /\ LET key == MakeKey(tok)
           kid == Prefix(key, KeyIdLen)
           call == [called |-> TRUE, user_email |-> email, user_name |-> name,
                    plan_type |-> plan, api_key |-> key, pre |-> api_keys]
       IN IF \E i \in 1..Len(api_keys) : api_keys[i].key_id = kid
          THEN /\ issue' = [result |-> None] @@ call
               /\ UNCHANGED <<api_keys, served, issued>>
          ELSE /\ UNCHANGED <<api_keys, served, issued>>
               /\ issue' = [result |-> Result(key, plan, now)] @@ call
    /\ UNCHANGED <<now, writer, pc, api_key, row, requests_made,
                   resetPending, verdict, pre>>
    /\ UNCHANGED gateVars
    /\ UNCHANGED callVars

\* Mutant of Generate: key_id is not UNIQUE.
GenerateNoUnique(email, name, plan, tok) ==
    /\ writer = 0
    /\ LET key == MakeKey(tok)
           kid == Prefix(key, KeyIdLen)
           call == [called |-> TRUE, user_email |-> email, user_name |-> name,
                    plan_type |-> plan, api_key |-> key, pre |-> api_keys]
       IN IF FALSE
          THEN /\ issue' = [result |-> None] @@ call
               /\ UNCHANGED <<api_keys, served, issued>>
          ELSE /\ api_keys' = Append(api_keys,
                      NewRow(Len(api_keys) + 1, key, email, name, plan, now))
               /\ served' = Append(served, [day |-> Day(now), valid |-> 0,
                      remaining |-> NULL])
               /\ issue' = [result |-> Result(key, plan, now)] @@ call
               /\ issued' = Append(issued, Result(key, plan, now))
    /\ UNCHANGED <<now, writer, pc, api_key, row, requests_made,
                   resetPending, verdict, pre>>
    /\ UNCHANGED gateVars
    /\ UNCHANGED callVars

\* Mutant of Generate: UNIQUE is on key_hash, not on key_id.
GenerateUniqueHash(email, name, plan, tok) ==
    /\ writer = 0
    /\ LET key == MakeKey(tok)
           kid == Prefix(key, KeyIdLen)
           call == [called |-> TRUE, user_email |-> email, user_name |-> name,
                    plan_type |-> plan, api_key |-> key, pre |-> api_keys]
       IN IF \E i \in 1..Len(api_keys) : api_keys[i].key_hash = Sha256(key)
          THEN /\ issue' = [result |-> None] @@ call
               /\ UNCHANGED <<api_keys, served, issued>>
          ELSE /\ api_keys' = Append(api_keys,
                      NewRow(Len(api_keys) + 1, key, email, name, plan, now))
               /\ served' = Append(served, [day |-> Day(now), valid |-> 0,
                      remaining |-> NULL])
               /\ issue' = [result |-> Result(key, plan, now)] @@ call
               /\ issued' = Append(issued, Result(key, plan, now))
    /\ UNCHANGED <<now, writer, pc, api_key, row, requests_made,
                   resetPending, verdict, pre>>
    /\ UNCHANGED gateVars
    /\ UNCHANGED callVars

\* generate_api_key(user_email, user_name, plan_type), with tok the token the
\* generator drew.  The INSERT and its commit are one write transaction.
Generate(email, name, plan, tok) ==
    /\ writer = 0
    /\ LET key == MakeKey(tok)
           kid == Prefix(key, KeyIdLen)
           call == [called |-> TRUE, user_email |-> email, user_name |-> name,
                    plan_type |-> plan, api_key |-> key, pre |-> api_keys]
       IN IF \E i \in 1..Len(api_keys) : api_keys[i].key_id = kid
          THEN \* sqlite3.IntegrityError (key_id UNIQUE): return None
               /\ issue' = [result |-> None] @@ call
               /\ UNCHANGED <<api_keys, served, issued>>
          ELSE /\ api_keys' = Append(api_keys,
                      NewRow(Len(api_keys) + 1, key, email, name, plan, now))
               /\ served' = Append(served, [day |-> Day(now), valid |-> 0,
                      remaining |-> NULL])
               /\ issue' = [result |-> Result(key, plan, now)] @@ call
               /\ issued' = Append(issued, Result(key, plan, now))
    /\ UNCHANGED <<now, writer, pc, api_key, row, requests_made,
                   resetPending, verdict, pre>>
    /\ UNCHANGED gateVars
    /\ UNCHANGED callVars

\* Mutant of Malformed: the tag is not checked.
MalformedEmptyOnly(cred) == cred = << >>

\* not api_key or not api_key.startswith("tsx_")
Malformed(cred) == cred = << >> \/ ~StartsWith(cred, Tag)

\* Lines 89-92: the format check.
BeginCall(c, cred) ==
    /\ pc[c] = "idle"
    /\ api_key' = [api_key EXCEPT ![c] = cred]
    /\ pre' = [pre EXCEPT ![c] = api_keys]
    /\ row' = [row EXCEPT ![c] = NULL]
    /\ requests_made' = [requests_made EXCEPT ![c] = 0]
    /\ IF Malformed(cred)
       THEN /\ pc' = [pc EXCEPT ![c] = "done"]
            /\ verdict' = [verdict EXCEPT ![c] = Invalid(ErrFormat)]
       ELSE /\ pc' = [pc EXCEPT ![c] = "select"]
            /\ verdict' = [verdict EXCEPT ![c] = NoVerdict]
    /\ UNCHANGED <<api_keys, now, writer, resetPending, served>>
    /\ UNCHANGED <<issueVars, gateVars>>
    /\ UNCHANGED callVars

\* Mutant of Select: is_active is not checked.
SelectSkipsActive(c) ==
    /\ pc[c] = "select"
    /\ LET m == Matches(api_keys, Sha256(api_key[c]))
       IN IF m = {}
          THEN /\ pc' = [pc EXCEPT ![c] = "done"]
               /\ verdict' = [verdict EXCEPT ![c] = Invalid(ErrNotFound)]
               /\ UNCHANGED <<row, requests_made>>
          ELSE /\ pc' = [pc EXCEPT ![c] = "expiry"]
               /\ row' = [row EXCEPT ![c] = api_keys[MinOf(m)]]
               /\ requests_made' = [requests_made EXCEPT ![c] =
                                       api_keys[MinOf(m)].requests_made]
               /\ UNCHANGED verdict
    /\ UNCHANGED <<api_keys, now, writer, api_key, resetPending, pre, served>>
    /\ UNCHANGED <<issueVars, gateVars>>
    /\ UNCHANGED callVars

\* Mutant of Select: the row is looked up by key_id = api_key[:12].
SelectByKeyId(c) ==
    /\ pc[c] = "select"
    /\ LET m == {i \in 1..Len(api_keys) :
                    api_keys[i].key_id = Prefix(api_key[c], KeyIdLen)}
       IN IF m = {}
          THEN /\ pc' = [pc EXCEPT ![c] = "done"]
               /\ verdict' = [verdict EXCEPT ![c] = Invalid(ErrNotFound)]
               /\ UNCHANGED <<row, requests_made>>
          ELSE LET r == api_keys[MinOf(m)]
               IN IF ~r.is_active
                  THEN /\ pc' = [pc EXCEPT ![c] = "done"]
                       /\ verdict' = [verdict EXCEPT ![c] =
                                         Invalid(ErrDeactivated)]
                       /\ UNCHANGED <<row, requests_made>>
                  ELSE /\ pc' = [pc EXCEPT ![c] = "expiry"]
                       /\ row' = [row EXCEPT ![c] = r]
                       /\ requests_made' =
                              [requests_made EXCEPT ![c] = r.requests_made]
                       /\ UNCHANGED verdict
    /\ UNCHANGED <<api_keys, now, writer, api_key, resetPending, pre, served>>
    /\ UNCHANGED <<issueVars, gateVars>>
    /\ UNCHANGED callVars

\* Lines 94-116: SELECT ... WHERE key_hash = ?, fetchone, the active check.
Select(c) ==
    /\ pc[c] = "select"
    /\ LET m == Matches(api_keys, Sha256(api_key[c]))
       IN IF m = {}
          THEN /\ pc' = [pc EXCEPT ![c] = "done"]
               /\ verdict' = [verdict EXCEPT ![c] = Invalid(ErrNotFound)]
               /\ UNCHANGED <<row, requests_made>>
          ELSE LET r == api_keys[MinOf(m)]
               IN IF ~r.is_active
                  THEN /\ pc' = [pc EXCEPT ![c] = "done"]
                       /\ verdict' = [verdict EXCEPT ![c] =
                                         Invalid(ErrDeactivated)]
                       /\ UNCHANGED <<row, requests_made>>
                  ELSE /\ pc' = [pc EXCEPT ![c] = "expiry"]
                       /\ row' = [row EXCEPT ![c] = r]
                       /\ requests_made' =
                              [requests_made EXCEPT ![c] = r.requests_made]
                       /\ UNCHANGED verdict
    /\ UNCHANGED <<api_keys, now, writer, api_key, resetPending, pre, served>>
    /\ UNCHANGED <<issueVars, gateVars>>
    /\ UNCHANGED callVars

\* expires_at and datetime.fromisoformat(expires_at) < datetime.now()
Expired(expires_at, t) == expires_at # Never /\ expires_at < t

\* Mutant of Expiry: the limit is checked before the expiry.
ExpiryAfterLimit(c) ==
    /\ pc[c] = "expiry"
    /\ IF row[c].request_limit > 0
          /\ requests_made[c] >= row[c].request_limit
       THEN /\ pc' = [pc EXCEPT ![c] = "done"]
            /\ verdict' = [verdict EXCEPT ![c] = Invalid(ErrLimit)]
            /\ row' = [row EXCEPT ![c] = NULL]
            /\ requests_made' = [requests_made EXCEPT ![c] = 0]
       ELSE IF Expired(row[c].expires_at, now)
       THEN /\ pc' = [pc EXCEPT ![c] = "done"]
            /\ verdict' = [verdict EXCEPT ![c] = Invalid(ErrExpired)]
            /\ row' = [row EXCEPT ![c] = NULL]
            /\ requests_made' = [requests_made EXCEPT ![c] = 0]
       ELSE /\ pc' = [pc EXCEPT ![c] = "reset"]
            /\ UNCHANGED <<verdict, row, requests_made>>
    /\ UNCHANGED <<api_keys, now, writer, api_key, resetPending, pre, served>>
    /\ UNCHANGED <<issueVars, gateVars>>
    /\ UNCHANGED callVars

\* Lines 118-121: the expiry check.
Expiry(c) ==
    /\ pc[c] = "expiry"
    /\ IF Expired(row[c].expires_at, now)
       THEN /\ pc' = [pc EXCEPT ![c] = "done"]
            /\ verdict' = [verdict EXCEPT ![c] = Invalid(ErrExpired)]
            /\ row' = [row EXCEPT ![c] = NULL]
            /\ requests_made' = [requests_made EXCEPT ![c] = 0]
       ELSE /\ pc' = [pc EXCEPT ![c] = "reset"]
            /\ UNCHANGED <<verdict, row, requests_made>>
    /\ UNCHANGED <<api_keys, now, writer, api_key, resetPending, pre, served>>
    /\ UNCHANGED <<issueVars, gateVars>>
    /\ UNCHANGED callVars

\* created_date < today
ResetDue(created_at, t) == Day(created_at) < Day(t)

\* Mutant of LimitExceeded: off by one.
LimitExceededOffByOne(limit, made) == limit > 0 /\ made > limit

\* limit > 0 and requests_made >= limit
LimitExceeded(limit, made) == limit > 0 /\ made >= limit

\* Mutant of Reset: the rejected call is counted too.
ResetCountsRejected(c) ==
    /\ pc[c] = "reset"
    /\ LET due == ResetDue(row[c].created_at, now)
           made == IF due THEN 0 ELSE requests_made[c]
       IN /\ writer = 0
          /\ IF LimitExceeded(row[c].request_limit, made)
             THEN /\ pc' = [pc EXCEPT ![c] = "done"]
                  /\ verdict' = [verdict EXCEPT ![c] = Invalid(ErrLimit)]
                  /\ row' = [row EXCEPT ![c] = NULL]
                  /\ requests_made' = [requests_made EXCEPT ![c] = 0]
                  /\ api_keys' = [i \in 1..Len(api_keys) |->
                        IF api_keys[i].key_hash = Sha256(api_key[c])
                        THEN [api_keys[i] EXCEPT !.requests_made = @ + 1,
                                                 !.last_used = now]
                        ELSE api_keys[i]]
                  /\ UNCHANGED <<writer, resetPending>>
             ELSE /\ pc' = [pc EXCEPT ![c] = "update"]
                  /\ requests_made' = [requests_made EXCEPT ![c] = made]
                  /\ writer' = IF due THEN c ELSE writer
                  /\ resetPending' = [resetPending EXCEPT ![c] = due]
                  /\ UNCHANGED <<verdict, row, api_keys>>
    /\ UNCHANGED <<now, api_key, pre, served>>
    /\ UNCHANGED <<issueVars, gateVars>>
    /\ UNCHANGED callVars

\* Mutant of Reset: the reset is issued, the local count is not cleared.
ResetKeepsLocal(c) ==
    /\ pc[c] = "reset"
    /\ LET due == ResetDue(row[c].created_at, now)
           made == requests_made[c]
       IN /\ due => writer = 0
          /\ IF LimitExceeded(row[c].request_limit, made)
             THEN /\ pc' = [pc EXCEPT ![c] = "done"]
                  /\ verdict' = [verdict EXCEPT ![c] = Invalid(ErrLimit)]
                  /\ row' = [row EXCEPT ![c] = NULL]
                  /\ requests_made' = [requests_made EXCEPT ![c] = 0]
                  /\ UNCHANGED <<writer, resetPending>>
             ELSE /\ pc' = [pc EXCEPT ![c] = "update"]
                  /\ requests_made' = [requests_made EXCEPT ![c] = made]
                  /\ writer' = IF due THEN c ELSE writer
                  /\ resetPending' = [resetPending EXCEPT ![c] = due]
                  /\ UNCHANGED <<verdict, row>>
    /\ UNCHANGED <<api_keys, now, api_key, pre, served>>
    /\ UNCHANGED <<issueVars, gateVars>>
    /\ UNCHANGED callVars

\* Lines 123-139: the daily reset (an UPDATE, which opens the transaction
\* and takes the write lock) and the limit check.  A rejected call closes
\* its connection without commit, which rolls an open transaction back.
Reset(c) ==
    /\ pc[c] = "reset"
    /\ LET due == ResetDue(row[c].created_at, now)
           made == IF due THEN 0 ELSE requests_made[c]
       IN /\ due => writer = 0
          /\ IF LimitExceeded(row[c].request_limit, made)
             THEN /\ pc' = [pc EXCEPT ![c] = "done"]
                  /\ verdict' = [verdict EXCEPT ![c] = Invalid(ErrLimit)]
                  /\ row' = [row EXCEPT ![c] = NULL]
                  /\ requests_made' = [requests_made EXCEPT ![c] = 0]
                  /\ UNCHANGED <<writer, resetPending>>
             ELSE /\ pc' = [pc EXCEPT ![c] = "update"]
                  /\ requests_made' = [requests_made EXCEPT ![c] = made]
                  /\ writer' = IF due THEN c ELSE writer
                  /\ resetPending' = [resetPending EXCEPT ![c] = due]
                  /\ UNCHANGED <<verdict, row>>
    /\ UNCHANGED <<api_keys, now, api_key, pre, served>>
    /\ UNCHANGED <<issueVars, gateVars>>
    /\ UNCHANGED callVars

\* Lines 141-146: UPDATE ... SET requests_made = requests_made + 1.
Update(c) ==
    /\ pc[c] = "update"
    /\ writer \in {0, c}
    /\ writer' = c
    /\ pc' = [pc EXCEPT ![c] = "commit"]
    /\ UNCHANGED <<api_keys, now, api_key, row, requests_made, resetPending,
                   verdict, pre, served>>
    /\ UNCHANGED <<issueVars, gateVars>>
    /\ UNCHANGED callVars

\* Mutant of Committed: the UPDATE statements have no WHERE clause.
CommittedAllRows(rows, h, reset, t) ==
    [i \in 1..Len(rows) |->
        [rows[i] EXCEPT !.requests_made = (IF reset THEN 0 ELSE @) + 1,
                        !.last_used = t]]

\* The rows after the caller's transaction: the reset, if it holds one, and
\* the relative increment, on every row with the key_hash.
Committed(rows, h, reset, t) ==
    [i \in 1..Len(rows) |->
        IF rows[i].key_hash = h
        THEN [rows[i] EXCEPT
                 !.requests_made = (IF reset THEN 0 ELSE @) + 1,
                 !.last_used = t]
        ELSE rows[i]]

\* Mutant of Commit: the UPDATE writes the count read by the SELECT, plus 1.
CommitWritesRead(c) ==
    /\ pc[c] = "commit"
    /\ writer = c
    /\ api_keys' = [i \in 1..Len(api_keys) |->
          IF api_keys[i].key_hash = Sha256(api_key[c])
          THEN [api_keys[i] EXCEPT !.requests_made = requests_made[c] + 1,
                                   !.last_used = now]
          ELSE api_keys[i]]
    /\ writer' = 0
    /\ resetPending' = [resetPending EXCEPT ![c] = FALSE]
    /\ verdict' = [verdict EXCEPT ![c] =
                      Valid(row[c].user_email, row[c].plan_type,
                            row[c].request_limit, requests_made[c])]
    /\ pc' = [pc EXCEPT ![c] = "done"]
    /\ row' = [row EXCEPT ![c] = NULL]
    /\ requests_made' = [requests_made EXCEPT ![c] = 0]
    /\ served' = [i \in 1..Len(served) |->
                    IF api_keys[i].key_hash # Sha256(api_key[c]) THEN served[i]
                    ELSE IF served[i].day = Day(now)
                         THEN [served[i] EXCEPT
                                  !.valid = @ + 1,
                                  !.remaining = Remaining(row[c].request_limit,
                                                          requests_made[c])]
                         ELSE [day |-> Day(now), valid |-> 1,
                               remaining |-> Remaining(row[c].request_limit,
                                                       requests_made[c])]]
    /\ UNCHANGED <<now, api_key, pre>>
    /\ UNCHANGED <<issueVars, gateVars>>
    /\ UNCHANGED callVars

\* Lines 148-156: commit, close, return the verdict.
Commit(c) ==
    /\ pc[c] = "commit"
    /\ writer = c
    /\ api_keys' = Committed(api_keys, Sha256(api_key[c]), resetPending[c], now)
    /\ writer' = 0
    /\ resetPending' = [resetPending EXCEPT ![c] = FALSE]
    /\ verdict' = [verdict EXCEPT ![c] =
                      Valid(row[c].user_email, row[c].plan_type,
                            row[c].request_limit, requests_made[c])]
    /\ pc' = [pc EXCEPT ![c] = "done"]
    /\ row' = [row EXCEPT ![c] = NULL]
    /\ requests_made' = [requests_made EXCEPT ![c] = 0]
    /\ served' = [i \in 1..Len(served) |->
                    IF api_keys[i].key_hash # Sha256(api_key[c]) THEN served[i]
                    ELSE IF served[i].day = Day(now)
                         THEN [served[i] EXCEPT
                                  !.valid = @ + 1,
                                  !.remaining = Remaining(row[c].request_limit,
                                                          requests_made[c])]
                         ELSE [day |-> Day(now), valid |-> 1,
                               remaining |-> Remaining(row[c].request_limit,
                                                       requests_made[c])]]
    /\ UNCHANGED <<now, api_key, pre>>
    /\ UNCHANGED <<issueVars, gateVars>>
    /\ UNCHANGED callVars

\* An administrator clears is_active of a row (no endpoint does).
Deactivate(i) ==
    /\ writer = 0
    /\ i \in 1..Len(api_keys)
    /\ api_keys[i].is_active
    /\ api_keys' = [api_keys EXCEPT ![i].is_active = FALSE]
    /\ UNCHANGED <<now, writer, pc, api_key, row, requests_made,
                   resetPending, verdict, pre, served>>
    /\ UNCHANGED <<issueVars, gateVars>>
    /\ UNCHANGED callVars

\* Time passes.
Advance ==
    /\ now < ValidityTicks + Horizon
    /\ now' = IF now = Horizon THEN ValidityTicks ELSE now + 1
    /\ UNCHANGED <<api_keys, writer, pc, api_key, row, requests_made,
                   resetPending, verdict, pre, served>>
    /\ UNCHANGED <<issueVars, gateVars>>
    /\ UNCHANGED callVars

\* The handler that called validate_api_key has used the verdict.
Return(c) ==
    /\ pc[c] = "done"
    /\ pc' = [pc EXCEPT ![c] = "idle"]
    /\ api_key' = [api_key EXCEPT ![c] = << >>]
    /\ verdict' = [verdict EXCEPT ![c] = NoVerdict]
    /\ pre' = [pre EXCEPT ![c] = << >>]
    /\ UNCHANGED <<api_keys, now, writer, row, requests_made, resetPending,
                   served>>
    /\ UNCHANGED <<issueVars, gateVars>>
    /\ UNCHANGED callVars

\* ------------------------------------------------ sequential specification

\* No call is in progress.
Quiet == \A c \in Callers : pc[c] = "idle"

\* The rows a credential selects have requests_made, and Valid verdicts of
\* the day, below n.
Below(cred, n) ==
    \A i \in Matches(api_keys, Sha256(cred)) :
        api_keys[i].requests_made < n /\ served[i].valid < n

\* Operations one after the other: a key is issued, a caller validates,
\* an administrator deactivates, time passes, each while no call is in
\* progress.
Issue ==
    /\ Quiet
    /\ Len(api_keys) < MaxKeys
    /\ \E e \in Emails, n \in Names, p \in PlanInputs, t \in Tokens :
          Generate(e, n, p, t)

Begin ==
    /\ Quiet
    /\ \E cred \in Presented : Below(cred, MaxMade) /\ BeginCall(1, cred)

AdminDeactivate == Quiet /\ \E i \in 1..Len(api_keys) : Deactivate(i)

Tick == Quiet /\ Advance

Next ==
    \/ Issue
    \/ Begin
    \/ Select(1)
    \/ Expiry(1)
    \/ Reset(1)
    \/ Update(1)
    \/ Commit(1)
    \/ Return(1)
    \/ AdminDeactivate
    \/ Tick

Spec == InitFresh /\ [][Next]_vars

\* ------------------------------------------------ concurrent specification

\* Every handler serves one request; the steps of the calls interleave with
\* each other, with issuance, with deactivation and with the clock.
ConcIssue ==
    /\ Len(api_keys) < MaxKeys
    /\ \E e \in Emails, n \in Names, p \in PlanInputs, t \in Tokens :
          Generate(e, n, p, t)

ConcBegin(c) ==
    /\ pc[c] = "idle"
    /\ \E cred \in Presented : BeginCall(c, cred)

ConcNext ==
    \/ ConcIssue
    \/ \E c \in Callers :
          \/ ConcBegin(c)
          \/ Select(c)
          \/ Expiry(c)
          \/ Reset(c)
          \/ Update(c)
          \/ Commit(c)
    \/ \E i \in 1..Len(api_keys) : Deactivate(i)
    \/ Advance

ConcSpec == InitPersisted /\ [][ConcNext]_vars

\* -------------------------------------------------- issuance specification

\* generate_api_key has returned to its caller.
IssueReturn ==
    /\ issue # NoIssue
    /\ issue' = NoIssue
    /\ UNCHANGED <<api_keys, now, writer, pc, api_key, row, requests_made,
                   resetPending, verdict, pre, served, issued>>
    /\ UNCHANGED gateVars
    /\ UNCHANGED callVars

\* No operation is in progress.
StoreQuiet == Quiet /\ issue = NoIssue

\* The INSERT of a credential would be refused.
Refused(key) ==
    \E i \in 1..Len(api_keys) : api_keys[i].key_id = Prefix(key, KeyIdLen)

\* Keys are issued, with every outcome of the generator, and validated, one
\* operation after the other, while time passes.  A table of StoreKeys rows
\* sees the calls that insert nothing.
StoreIssue ==
    /\ StoreQuiet
    /\ \E e \in Emails, n \in Names, p \in PlanInputs, t \in StoreTokens :
          /\ Len(api_keys) < StoreKeys \/ Refused(MakeKey(t))
          /\ Generate(e, n, p, t)

StoreBegin ==
    /\ StoreQuiet
    /\ \E cred \in StorePresented :
          Below(cred, StoreMade) /\ BeginCall(1, cred)

\* The clock of such a run stops at Horizon, short of any expiry.
StoreTick == StoreQuiet /\ now < Horizon /\ Advance

StoreNext ==
    \/ StoreIssue
    \/ IssueReturn
    \/ StoreBegin
    \/ Select(1)
    \/ Expiry(1)
    \/ Reset(1)
    \/ Update(1)
    \/ Commit(1)
    \/ Return(1)
    \/ StoreTick

StoreSpec == InitFresh /\ [][StoreNext]_vars

\* ------------------------------------------------------ gate specification

\* Lines 177-193: a request enters a gated endpoint.  Without a credential
\* it is answered at once; with one, validate_api_key is called.
Request(c, h) ==
    IF HeaderKey(h) = << >>
    THEN /\ pc[c] = "idle"
         /\ pc' = [pc EXCEPT ![c] = "responded"]
         /\ response' = [response EXCEPT ![c] =
                Answer(401, FALSE, "MISSING_API_KEY", "API key required", FALSE)]
         /\ UNCHANGED <<api_keys, now, writer, api_key, row, requests_made,
                        resetPending, verdict, pre, served, api_usage,
                        valids, faults>>
         /\ UNCHANGED <<issueVars, callVars>>
    ELSE BeginCall(c, HeaderKey(h))

\* Mutant of Reject: the 401 is built and not returned.
RejectFallsThrough(c) ==
    /\ pc[c] = "done"
    /\ ~verdict[c].valid
    /\ pc' = [pc EXCEPT ![c] = "handler"]
    /\ UNCHANGED <<api_keys, now, writer, api_key, row, requests_made,
                   resetPending, verdict, pre, served>>
    /\ UNCHANGED <<issueVars, gateVars, callVars>>

\* Lines 195-200: the verdict is not Valid.
Reject(c) ==
    /\ pc[c] = "done"
    /\ ~verdict[c].valid
    /\ pc' = [pc EXCEPT ![c] = "responded"]
    /\ response' = [response EXCEPT ![c] =
           Answer(401, FALSE, "INVALID_API_KEY", verdict[c].error, FALSE)]
    /\ UNCHANGED <<api_keys, now, writer, api_key, row, requests_made,
                   resetPending, verdict, pre, served, api_usage, valids,
                   faults>>
    /\ UNCHANGED issueVars
    /\ UNCHANGED callVars

\* Mutant of LogUsage: the usage is logged before the verdict is looked at.
LogUsageAnyVerdict(c) ==
    /\ pc[c] = "done"
    /\ writer = 0
    /\ api_usage' = Append(api_usage,
           UsageRow(Len(api_usage) + 1, Prefix(api_key[c], KeyIdLen),
                    "api_v1_search", "10.0.0.1", "curl", now))
    /\ IF verdict[c].valid
       THEN /\ valids' = valids + 1
            /\ pc' = [pc EXCEPT ![c] = "handler"]
            /\ UNCHANGED response
       ELSE /\ pc' = [pc EXCEPT ![c] = "responded"]
            /\ response' = [response EXCEPT ![c] =
                   Answer(401, FALSE, "INVALID_API_KEY", verdict[c].error, FALSE)]
            /\ UNCHANGED valids
    /\ UNCHANGED <<api_keys, now, writer, api_key, row, requests_made,
                   resetPending, verdict, pre, served, faults>>
    /\ UNCHANGED issueVars
    /\ UNCHANGED callVars

\* Lines 202-211 and 158-169: the verdict is Valid and log_usage inserts and
\* commits its row, one write transaction.
LogUsage(c) ==
    /\ pc[c] = "done"
    /\ verdict[c].valid
    /\ writer = 0
    /\ api_usage' = Append(api_usage,
           UsageRow(Len(api_usage) + 1, Prefix(api_key[c], KeyIdLen),
                    "api_v1_search", "10.0.0.1", "curl", now))
    /\ valids' = valids + 1
    /\ pc' = [pc EXCEPT ![c] = "handler"]
    /\ UNCHANGED <<api_keys, now, writer, api_key, row, requests_made,
                   resetPending, verdict, pre, served, response, faults>>
    /\ UNCHANGED issueVars
    /\ UNCHANGED callVars

\* Lines 202-208 and 158-169: the verdict is Valid and the INSERT or the
\* commit of log_usage raises (database locked, disk full, I/O error).
\* Nothing catches the exception: it leaves log_usage and the decorated
\* function, and the framework answers 500.
LogUsageFault(c) ==
    /\ pc[c] = "done"
    /\ verdict[c].valid
    /\ valids' = valids + 1
    /\ faults' = faults + 1
    /\ pc' = [pc EXCEPT ![c] = "responded"]
    /\ response' = [response EXCEPT ![c] =
           Answer(500, FALSE, NULL, "Internal Server Error", FALSE)]
    /\ UNCHANGED <<api_keys, now, writer, api_key, row, requests_made,
                   resetPending, verdict, pre, served, api_usage>>
    /\ UNCHANGED issueVars
    /\ UNCHANGED callVars

\* Mutant of Handler: a request the handler fails is not charged; its usage
\* row is deleted.
HandlerRefunds(c, status) ==
    /\ pc[c] = "handler"
    /\ pc' = [pc EXCEPT ![c] = "responded"]
    /\ response' = [response EXCEPT ![c] =
           Answer(status, status = 200, NULL, NULL, TRUE)]
    /\ api_usage' = IF status = 200 \/ api_usage = << >> THEN api_usage
                    ELSE SubSeq(api_usage, 1, Len(api_usage) - 1)
    /\ UNCHANGED <<api_keys, now, writer, api_key, row, requests_made,
                   resetPending, verdict, pre, served, valids, faults>>
    /\ UNCHANGED <<issueVars, callVars>>

\* Line 213: the protected handler answers, with the status it chooses.
Handler(c, status) ==
    /\ pc[c] = "handler"
    /\ pc' = [pc EXCEPT ![c] = "responded"]
    /\ response' = [response EXCEPT ![c] = Answer(status, status = 200, NULL, NULL, TRUE)]
    /\ UNCHANGED <<api_keys, now, writer, api_key, row, requests_made,
                   resetPending, verdict, pre, served, api_usage, valids,
                   faults>>
    /\ UNCHANGED issueVars
    /\ UNCHANGED callVars

\* The response has left; the handler thread takes the next request.
Respond(c) ==
    /\ pc[c] = "responded"
    /\ pc' = [pc EXCEPT ![c] = "idle"]
    /\ api_key' = [api_key EXCEPT ![c] = << >>]
    /\ verdict' = [verdict EXCEPT ![c] = NoVerdict]
    /\ pre' = [pre EXCEPT ![c] = << >>]
    /\ response' = [response EXCEPT ![c] = NoResponse]
    /\ UNCHANGED <<api_keys, now, writer, row, requests_made, resetPending,
                   served, api_usage, valids, faults>>
    /\ UNCHANGED issueVars
    /\ UNCHANGED callVars

\* Requests enter while fewer than MaxValid Valid verdicts were returned.
GateRequest(c) ==
    /\ valids < MaxValid
    /\ \E h \in Headers : Request(c, h)

\* The statuses the handlers of web_app.py answer with.
HandlerStatuses == {200, 400, 500}

\* The clock of such a run stops at Horizon.
GateTick == now < Horizon /\ Advance

\* Concurrent handler threads serve gated requests on the database as an
\* earlier process left it.
GateNext ==
    \/ \E c \in Callers :
          \/ GateRequest(c)
          \/ Select(c)
          \/ Expiry(c)
          \/ Reset(c)
          \/ Update(c)
          \/ Commit(c)
          \/ Reject(c)
          \/ LogUsage(c)
          \/ LogUsageFault(c)
          \/ \E st \in HandlerStatuses : Handler(c, st)
          \/ Respond(c)
    \/ GateTick

GateSpec == InitPersisted /\ [][GateNext]_vars

\* -------------------------------------------------- endpoint specification
\* create_api_key of src/web_app.py: POST /api/v1/get-api-key.  A text of the
\* request body is the sequence of its characters, so that strip() and the
\* tests '@' in email, '.' in email are computed on it.

Whitespace == {" ", "\t"}

RECURSIVE LStrip(_)
LStrip(s) ==
    IF s # << >> /\ Head(s) \in Whitespace THEN LStrip(Tail(s)) ELSE s

RECURSIVE RStrip(_)
RStrip(s) ==
    IF s # << >> /\ s[Len(s)] \in Whitespace
    THEN RStrip(SubSeq(s, 1, Len(s) - 1))
    ELSE s

\* str.strip()
Strip(s) == RStrip(LStrip(s))

\* ch in s
Contains(s, ch) == \E i \in 1..Len(s) : s[i] = ch

\* The characters of the names of the plans.
Spelling ==
    [free |-> <<"f", "r", "e", "e">>,
     basic |-> <<"b", "a", "s", "i", "c">>,
     pro |-> <<"p", "r", "o">>,
     enterprise |-> <<"e", "n", "t", "e", "r", "p", "r", "i", "s", "e">>]

\* A member of the JSON object: missing, a text, or a value that is not a
\* text (null, a number), which has no strip().
Absent == [kind |-> "absent"]
NotText == [kind |-> "null"]
Text(s) == [kind |-> "str", chars |-> s]

EmailFields ==
    {Absent, NotText, Text(<<" ">>), Text(<<"a", "@", "b">>),
     Text(<<"a", ".", "b">>), Text(<<" ", "a", "@", "b", ".", "c", " ">>),
     Text(<<"d", "@", "e", ".", "f">>)}
NameFields == {Absent, NotText, Text(<<" ">>), Text(<<"A", "n", "n", " ">>)}
PlanFields ==
    {Absent, NotText, Text(<<" ", "p", "r", "o">>),
     Text(<<"g", "o", "l", "d">>)}

\* request.get_json()
Bodies ==
    {[sent |-> TRUE, email |-> e, name |-> n, plan |-> p] :
        e \in EmailFields, n \in NameFields, p \in PlanFields}

\* not data: the object has no member.
Empty(b) == b.email = Absent /\ b.name = Absent /\ b.plan = Absent

\* data.get(member, default)
Get(f, default) == IF f = Absent THEN Text(default) ELSE f

\* Lines 365-367: one of the three values has no strip(): AttributeError.
StripRaises(b) ==
    \/ Get(b.email, << >>) = NotText
    \/ Get(b.name, << >>) = NotText
    \/ Get(b.plan, Spelling.free) = NotText

email_of(b) == Strip(Get(b.email, << >>).chars)
name_of(b) == Strip(Get(b.name, << >>).chars)
plan_of(b) == Strip(Get(b.plan, Spelling.free).chars)

\* The answer of lines 358-390 and 410-416 to a body the handler gives up
\* on before generate_api_key is called; NoResponse to a body it accepts.
Refusal(b) ==
    IF Empty(b)
    THEN Answer(400, FALSE, "MISSING_DATA", "Request body is required", TRUE)
    ELSE IF StripRaises(b)
    THEN Answer(500, FALSE, "INTERNAL_ERROR", "Internal server error", TRUE)
    ELSE IF email_of(b) = << >> \/ name_of(b) = << >>
    THEN Answer(400, FALSE, "MISSING_CREDENTIALS",
                "Email and name are required", TRUE)
    ELSE IF ~Contains(email_of(b), "@") \/ ~Contains(email_of(b), ".")
    THEN Answer(400, FALSE, "INVALID_EMAIL", "Invalid email format", TRUE)
    ELSE IF ~(\E p \in Plans : Spelling[p] = plan_of(b))
    THEN Answer(400, FALSE, "INVALID_PLAN", "Invalid plan type", TRUE)
    ELSE NoResponse

\* Line 356: a request reaches the handler.
CreateRequest(c, b) ==
    /\ pc[c] = "idle"
    /\ issue = NoIssue
    /\ pc' = [pc EXCEPT ![c] = "create"]
    /\ body' = [body EXCEPT ![c] = b]
    /\ pre' = [pre EXCEPT ![c] = api_keys]
    /\ UNCHANGED <<api_keys, now, writer, api_key, row, requests_made,
                   resetPending, verdict, served, faulted>>
    /\ UNCHANGED <<issueVars, gateVars>>

\* Lines 358-390, 410-416: the handler gives up on the body.
CreateRefuse(c) ==
    /\ pc[c] = "create"
    /\ issue = NoIssue
    /\ Refusal(body[c]) # NoResponse
    /\ pc' = [pc EXCEPT ![c] = "responded"]
    /\ response' = [response EXCEPT ![c] = Refusal(body[c])]
    /\ UNCHANGED <<api_keys, now, writer, api_key, row, requests_made,
                   resetPending, verdict, pre, served, api_usage, valids,
                   faults>>
    /\ UNCHANGED issueVars
    /\ UNCHANGED callVars

\* Line 393: generate_api_key(email, name, plan) on the stripped values.
CreateCall(c, tok) ==
    /\ pc[c] = "create"
    /\ issue = NoIssue
    /\ Refusal(body[c]) = NoResponse
    /\ Len(api_keys) < StoreKeys \/ Refused(MakeKey(tok))
    /\ Generate(email_of(body[c]), name_of(body[c]),
                CHOOSE p \in Plans : Spelling[p] = plan_of(body[c]), tok)

\* Lines 395-408: the answer after generate_api_key returned.
CreateReply(c) ==
    /\ pc[c] = "create"
    /\ issue # NoIssue
    /\ pc' = [pc EXCEPT ![c] = "responded"]
    /\ response' = [response EXCEPT ![c] =
          IF issue.result = None
          THEN Answer(400, FALSE, "GENERATION_FAILED",
                      "Failed to generate API key", TRUE)
          ELSE Answer(200, TRUE, NULL, NULL, TRUE)]
    /\ issue' = NoIssue
    /\ UNCHANGED <<api_keys, now, writer, api_key, row, requests_made,
                   resetPending, verdict, pre, served, issued, api_usage,
                   valids, faults>>
    /\ UNCHANGED callVars

EndpointNext ==
    \/ \E b \in Bodies : CreateRequest(1, b)
    \/ CreateRefuse(1)
    \/ \E t \in StoreTokens : CreateCall(1, t)
    \/ CreateReply(1)
    \/ Respond(1)

EndpointSpec == InitFresh /\ [][EndpointNext]_vars

\* ----------------------------------------------------- fault specification

\* A statement of validate_api_key raises sqlite3.OperationalError (database
\* is locked, disk I/O error) where nothing catches it: the exception leaves
\* the function, and the connection, dropped with it, rolls back what the
\* call had not committed.  A run meets at most MaxFaults faults.
Raise(c) ==
    /\ faults < MaxFaults
    /\ pc' = [pc EXCEPT ![c] = "raised"]
    /\ writer' = IF writer = c THEN 0 ELSE writer
    /\ resetPending' = [resetPending EXCEPT ![c] = FALSE]
    /\ row' = [row EXCEPT ![c] = NULL]
    /\ requests_made' = [requests_made EXCEPT ![c] = 0]
    /\ faulted' = [faulted EXCEPT ![c] = TRUE]
    /\ faults' = faults + 1
    /\ UNCHANGED <<api_keys, now, api_key, verdict, pre, served, api_usage,
                   response, valids, body>>
    /\ UNCHANGED issueVars

\* Lines 95-105: the connect or the SELECT raises.
SelectFault(c) == pc[c] = "select" /\ Raise(c)

\* Lines 124-134: the UPDATE of the daily reset raises, inside the try whose
\* bare except passes: requests_made = 0 is skipped and the call goes on to
\* the limit check with the count it read.
ResetFault(c) ==
    /\ pc[c] = "reset"
    /\ ResetDue(row[c].created_at, now)
    /\ faults < MaxFaults
    /\ faulted' = [faulted EXCEPT ![c] = TRUE]
    /\ faults' = faults + 1
    /\ IF LimitExceeded(row[c].request_limit, requests_made[c])
       THEN /\ pc' = [pc EXCEPT ![c] = "done"]
            /\ verdict' = [verdict EXCEPT ![c] = Invalid(ErrLimit)]
            /\ row' = [row EXCEPT ![c] = NULL]
            /\ requests_made' = [requests_made EXCEPT ![c] = 0]
       ELSE /\ pc' = [pc EXCEPT ![c] = "update"]
            /\ UNCHANGED <<verdict, row, requests_made>>
    /\ UNCHANGED <<api_keys, now, writer, api_key, resetPending, pre, served,
                   api_usage, response, valids, body>>
    /\ UNCHANGED issueVars

\* Lines 142-146: the UPDATE of the increment raises.
UpdateFault(c) == pc[c] = "update" /\ Raise(c)

\* Line 148: the commit raises.
CommitFault(c) == pc[c] = "commit" /\ Raise(c)

\* The caller has used the verdict, or handled the exception.
FaultReturn(c) ==
    /\ pc[c] \in {"done", "raised"}
    /\ pc' = [pc EXCEPT ![c] = "idle"]
    /\ api_key' = [api_key EXCEPT ![c] = << >>]
    /\ verdict' = [verdict EXCEPT ![c] = NoVerdict]
    /\ pre' = [pre EXCEPT ![c] = << >>]
    /\ faulted' = [faulted EXCEPT ![c] = FALSE]
    /\ UNCHANGED <<api_keys, now, writer, row, requests_made, resetPending,
                   served, body>>
    /\ UNCHANGED <<issueVars, gateVars>>

\* Calls one after the other on the database as an earlier process left
\* it, any statement of which may fail.
FaultNext ==
    \/ Begin
    \/ Select(1)
    \/ Expiry(1)
    \/ Reset(1)
    \/ Update(1)
    \/ Commit(1)
    \/ SelectFault(1)
    \/ ResetFault(1)
    \/ UpdateFault(1)
    \/ CommitFault(1)
    \/ FaultReturn(1)
    \/ Tick

FaultSpec == InitPersisted /\ [][FaultNext]_vars

\* ------------------------------------------------------------- properties

\* The call of caller c has returned and its verdict has not been used yet.
Done(c) == pc[c] = "done"

\* The rows the credential of caller c selected when its call began, the
\* first of them as it was then and as it is now (rows are never removed).
Sel(c) == Matches(pre[c], Sha256(api_key[c]))
PreRow(c) == pre[c][MinOf(Sel(c))]
CurRow(c) == api_keys[MinOf(Sel(c))]

\* Caller c presented the credential of a key that was active, and is
\* unexpired at the current time.
Usable(c) ==
    /\ Sel(c) # {}
    /\ PreRow(c).is_active
    /\ PreRow(c).expires_at >= now

\* C1: N >= 2 concurrent calls on the credential of an active, unexpired
\* finite-plan key whose stored requests_made was limit - 1 when each of them
\* began return exactly one Valid verdict and N - 1 "Daily API limit
\* exceeded" verdicts.
C1_ExactlyOneValid ==
    \A i \in 1..Len(api_keys) :
        LET L == api_keys[i].request_limit
        IN (/\ L > 0
            /\ api_keys[i].is_active
            /\ api_keys[i].expires_at >= now
            /\ \A c \in Callers :
                  /\ Done(c)
                  /\ Sha256(api_key[c]) = api_keys[i].key_hash
                  /\ Len(pre[c]) >= i
                  /\ pre[c][i].requests_made = L - 1)
           => /\ Cardinality({c \in Callers : verdict[c].valid}) = 1
              /\ \A c \in Callers :
                    ~verdict[c].valid => verdict[c] = Invalid(ErrLimit)

\* C2: in every reachable state every key with a finite positive
\* request_limit has stored requests_made <= request_limit.
C2_MadeWithinLimit ==
    \A i \in 1..Len(api_keys) :
        api_keys[i].request_limit > 0
            => api_keys[i].requests_made <= api_keys[i].request_limit

C4_DailyCeiling ==
    \A i \in 1..Len(api_keys) :
        api_keys[i].request_limit > 0
            => served[i].valid <= api_keys[i].request_limit

C6_Deactivated ==
    \A c \in Callers :
        (Done(c) /\ Sel(c) # {} /\ ~PreRow(c).is_active)
        => /\ verdict[c] = Invalid(ErrDeactivated)
           /\ api_keys = pre[c]

\* A deactivated key that is also expired and at its limit was rejected.
C6_Witness ==
    \E c \in Callers :
        /\ Done(c)
        /\ Sel(c) # {}
        /\ ~PreRow(c).is_active
        /\ PreRow(c).expires_at < now
        /\ PreRow(c).requests_made = PreRow(c).request_limit
        /\ verdict[c] = Invalid(ErrDeactivated)

\* C7: a call on an empty credential, or on one that does not start with
\* "tsx_", never reaches the SELECT nor any later statement, takes no lock,
\* returns "Invalid API key format" and leaves the table as it was.
C7_MalformedNoLookup ==
    \A c \in Callers :
        (/\ pc[c] # "idle"
         /\ (Len(api_key[c]) = 0 \/ Prefix(api_key[c], Len(Tag)) # Tag))
        => /\ pc[c] = "done"
           /\ verdict[c] = Invalid(ErrFormat)
           /\ writer # c
           /\ api_keys = pre[c]

\* A non-empty credential without the tag was rejected with keys stored.
C7_Witness ==
    \E c \in Callers :
        /\ Done(c)
        /\ api_key[c] = Token("a", "b")
        /\ Len(api_keys) > 0
        /\ verdict[c] = Invalid(ErrFormat)

\* C8: the verdict is the first that applies of malformed, not found,
\* deactivated, expired, limit exceeded, and Valid when none does.
C8_FirstFailure ==
    \A c \in Callers :
        Done(c) =>
            IF Len(api_key[c]) = 0 \/ Prefix(api_key[c], Len(Tag)) # Tag
            THEN verdict[c] = Invalid(ErrFormat)
            ELSE IF Sel(c) = {}
            THEN verdict[c] = Invalid(ErrNotFound)
            ELSE IF ~PreRow(c).is_active
            THEN verdict[c] = Invalid(ErrDeactivated)
            ELSE IF PreRow(c).expires_at < now
            THEN verdict[c] = Invalid(ErrExpired)
            ELSE IF /\ PreRow(c).request_limit > 0
                    /\ Day(PreRow(c).created_at) = Day(now)
                    /\ PreRow(c).requests_made >= PreRow(c).request_limit
            THEN verdict[c] = Invalid(ErrLimit)
            ELSE verdict[c].valid

\* An active key that is both expired and at its limit was reported expired.
C8_Witness ==
    \E c \in Callers :
        /\ Done(c)
        /\ Sel(c) # {}
        /\ PreRow(c).is_active
        /\ PreRow(c).expires_at < now
        /\ PreRow(c).requests_made >= PreRow(c).request_limit
        /\ PreRow(c).request_limit > 0
        /\ verdict[c] = Invalid(ErrExpired)

\* C9: the first call on the credential of an active, unexpired key of one
\* of the four plans returns Valid with the key's email and plan, and with
\* requests_remaining = request_limit - 1 (free 99, basic 999, pro 9999) or
\* "unlimited" (enterprise).
C9_FirstCall ==
    \A c \in Callers :
        (/\ Done(c)
         /\ Usable(c)
         /\ PreRow(c).last_used = Never
         /\ PreRow(c).plan_type \in Plans)
        => /\ verdict[c].valid
           /\ verdict[c].user_email = PreRow(c).user_email
           /\ verdict[c].plan = PreRow(c).plan_type
           /\ IF PreRow(c).plan_type = "enterprise"
              THEN verdict[c].requests_remaining = "unlimited"
              ELSE /\ verdict[c].requests_remaining
                         = PreRow(c).request_limit - 1
                   /\ verdict[c].requests_remaining
                         = (CASE PreRow(c).plan_type = "free" -> 99
                              [] PreRow(c).plan_type = "basic" -> 999
                              [] PreRow(c).plan_type = "pro" -> 9999)

\* The first call on a pro key, at the tick of its issuance, returned.
C9_Witness ==
    \E c \in Callers :
        /\ Done(c)
        /\ Usable(c)
        /\ PreRow(c).last_used = Never
        /\ PreRow(c).plan_type = "pro"
        /\ PreRow(c).user_email = "bob@y.org"
        /\ PreRow(c).created_at = now
        /\ verdict[c].valid

\* C10: a call that returned an Invalid verdict left requests_made and
\* last_used of every row as they were.
C10_InvalidWritesNothing ==
    \A c \in Callers :
        (Done(c) /\ ~verdict[c].valid)
        => /\ Len(api_keys) = Len(pre[c])
           /\ \A i \in 1..Len(pre[c]) :
                 /\ api_keys[i].requests_made = pre[c][i].requests_made
                 /\ api_keys[i].last_used = pre[c][i].last_used

\* A call was rejected at the limit and the counter stands at the limit.
C10_Witness ==
    \E c \in Callers :
        /\ Done(c)
        /\ verdict[c] = Invalid(ErrLimit)
        /\ Sel(c) # {}
        /\ PreRow(c).requests_made = PreRow(c).request_limit
        /\ CurRow(c).requests_made = PreRow(c).request_limit
        /\ CurRow(c).last_used = PreRow(c).last_used

\* The columns of a row that no operation on issued keys writes.
Fixed(r) ==
    <<r.id, r.key_id, r.key_hash, r.user_email, r.user_name, r.plan_type,
      r.request_limit, r.created_at, r.expires_at, r.is_active>>

\* C11: no step of generate_api_key or validate_api_key removes a row or
\* changes its id, key_id, key_hash, user_email, user_name, plan_type,
\* request_limit, created_at, expires_at or is_active; a row changes (in
\* requests_made and last_used, then) only at the commit of a call that
\* presented the credential issued for that row.
C11_Frame ==
    [][/\ Len(api_keys') >= Len(api_keys)
       /\ \A i \in 1..Len(api_keys) :
             /\ Fixed(api_keys'[i]) = Fixed(api_keys[i])
             /\ api_keys'[i] # api_keys[i]
                   => \E c \in Callers :
                         /\ pc[c] = "commit"
                         /\ pc'[c] = "done"
                         /\ api_key[c] = issued[i].api_key]_vars

\* With two keys stored, a call on the second one's credential returned
\* Valid after a daily reset: its row counts one request, the first row is
\* as it was.
C11_Witness ==
    \E c \in Callers :
        /\ Done(c)
        /\ verdict[c].valid
        /\ Len(pre[c]) = 2
        /\ api_key[c] = issued[2].api_key
        /\ Day(pre[c][2].created_at) < Day(now)
        /\ api_keys[2].requests_made = pre[c][2].requests_made + 1
        /\ api_keys[2].last_used = now
        /\ Fixed(api_keys[2]) = Fixed(pre[c][2])
        /\ api_keys[1] = pre[c][1]

\* C12: a call on the credential of an active, unexpired key whose
\* request_limit is -1 returns Valid with requests_remaining "unlimited",
\* whatever requests_made it finds, and leaves requests_made one above what
\* it found, counting from 0 when the key was last used on an earlier day.
C12_EnterpriseUnlimited ==
    \A c \in Callers :
        (/\ Done(c)
         /\ Usable(c)
         /\ PreRow(c).request_limit = EnterpriseLimit)
        => /\ verdict[c].valid
           /\ verdict[c].requests_remaining = "unlimited"
           /\ CurRow(c).requests_made =
                 (IF /\ PreRow(c).last_used # Never
                     /\ Day(PreRow(c).last_used) < Day(now)
                  THEN 0
                  ELSE PreRow(c).requests_made) + 1

\* generate_api_key is returning from a call with arguments an endpoint
\* accepts: e-mail and name not empty, one of the four plans.
IssuedValid ==
    /\ issue.called
    /\ issue.user_email # ""
    /\ issue.user_name # ""
    /\ issue.plan_type \in Plans

\* The rows of the table that hold the hash of a credential.
Holding(rows, key) == Matches(rows, Sha256(key))

\* C13 as claimed: with such arguments and a generated credential whose hash
\* was in no row, generate_api_key returns a credential that starts with
\* "tsx_", and a row holds its hash.
C13_FreshHashSucceeds ==
    (IssuedValid /\ Holding(issue.pre, issue.api_key) = {})
    => /\ issue.result.ok
       /\ StartsWith(issue.result.api_key, Tag)
       /\ Holding(api_keys, issue.result.api_key) # {}

\* C13 as amended: the same of a generated credential whose first 12
\* characters were the key_id of no row.
C13_FreshKeyIdSucceeds ==
    (/\ IssuedValid
     /\ \A i \in 1..Len(issue.pre) :
           issue.pre[i].key_id # Prefix(issue.api_key, KeyIdLen))
    => /\ issue.result.ok
       /\ StartsWith(issue.result.api_key, Tag)
       /\ Holding(api_keys, issue.result.api_key) # {}

\* A second key was issued, on the enterprise plan, next to one of another
\* key_id.
C13_Witness ==
    /\ IssuedValid
    /\ issue.plan_type = "enterprise"
    /\ Len(issue.pre) = 1
    /\ issue.pre[1].key_id # Prefix(issue.api_key, KeyIdLen)
    /\ issue.result.ok
    /\ Holding(issue.pre, issue.result.api_key) = {}
    /\ Holding(api_keys, issue.result.api_key) = {2}

\* C14: when generate_api_key returns a credential, the row found by the
\* credential's hash has the e-mail and the plan of the call, the plan's
\* ceiling as request_limit (100, 1000, 10000, -1), which is the daily_limit
\* returned, requests_made = 0 and is_active true.
C14_RoundTrip ==
    (issue.called /\ issue.result.ok)
    => /\ Holding(api_keys, issue.result.api_key) # {}
       /\ LET r == api_keys[MinOf(Holding(api_keys, issue.result.api_key))]
          IN /\ r.user_email = issue.user_email
             /\ r.plan_type = issue.plan_type
             /\ r.plan_type = issue.result.plan
             /\ r.request_limit = issue.result.daily_limit
             /\ issue.plan_type = "free" => r.request_limit = 100
             /\ issue.plan_type = "basic" => r.request_limit = 1000
             /\ issue.plan_type = "pro" => r.request_limit = 10000
             /\ issue.plan_type = "enterprise" => r.request_limit = -1
             /\ r.requests_made = 0
             /\ r.is_active

\* A basic key was issued to bob@y.org as the second key of the store.
C14_Witness ==
    /\ issue.called
    /\ issue.result.ok
    /\ issue.user_email = "bob@y.org"
    /\ issue.plan_type = "basic"
    /\ Len(api_keys) = 2
    /\ api_keys[2].key_hash = Sha256(issue.result.api_key)
    /\ api_keys[2].request_limit = BasicLimit
    /\ issue.result.daily_limit = BasicLimit

\* C15: when the hash of the generated credential is in a row already,
\* generate_api_key returns None and the table is as it was.
C15_ConflictKeepsStore ==
    (issue.called /\ Holding(issue.pre, issue.api_key) # {})
    => /\ issue.result = None
       /\ api_keys = issue.pre

\* The generator drew the credential of the stored key again.
C15_Witness ==
    /\ issue.called
    /\ Len(issue.pre) = 1
    /\ issue.pre[1].key_hash = Sha256(issue.api_key)
    /\ issue.result = None
    /\ api_keys = issue.pre

\* C16: no two rows have the same key_hash, and no two the same key_id.
C16_UniqueKeys ==
    \A i, j \in 1..Len(api_keys) :
        i # j => /\ api_keys[i].key_hash # api_keys[j].key_hash
                 /\ api_keys[i].key_id # api_keys[j].key_id

\* Two keys are stored after the generator drew a credential that shares its
\* first 12 characters with the first one's and was refused.
C16_Witness ==
    /\ Len(api_keys) = 2
    /\ issue.called
    /\ issue.result = None
    /\ issue.api_key # issued[1].api_key
    /\ Prefix(issue.api_key, KeyIdLen) = api_keys[1].key_id
    /\ api_keys[1].key_id # api_keys[2].key_id

\* C17: called with a plan that is none of free, basic, pro, enterprise,
\* generate_api_key returns no credential and inserts no row.
C17_StrictPlan ==
    (issue.called /\ issue.plan_type \notin Plans)
    => /\ issue.result = None
       /\ api_keys = issue.pre

\* The credentials generate_api_key has returned.
Secrets == {issued[i].api_key : i \in 1..Len(issued)}

\* C18: a call that presents anything but a credential generate_api_key
\* returned, the key_id of a row included, gets no Valid verdict, reaches
\* no UPDATE and leaves the table as it was.
C18_KeyIdNoAuth ==
    \A c \in Callers :
        (pc[c] # "idle" /\ api_key[c] \notin Secrets)
        => /\ ~verdict[c].valid
           /\ pc[c] \notin {"update", "commit"}
           /\ writer # c
           /\ api_keys = pre[c]

\* The key_id of a stored, active key was presented and not found.
C18_Witness ==
    \E c \in Callers :
        /\ Done(c)
        /\ Len(api_keys) > 0
        /\ api_key[c] = api_keys[1].key_id
        /\ api_keys[1].is_active
        /\ verdict[c] = Invalid(ErrNotFound)

\* C19: a gated request whose verdict was Valid is answered by the protected
\* handler, also when log_usage raised.
C19_LogFaultHarmless ==
    \A c \in Callers :
        (pc[c] = "responded" /\ verdict[c].valid) => response[c].handled

Responded(c) == pc[c] = "responded"

\* C21: the protected handler is entered from a Valid verdict only; a request
\* without credential is answered 401 MISSING_API_KEY, one whose verdict is
\* not Valid 401 INVALID_API_KEY with success false, neither by the handler;
\* and no step of a request that holds no Valid verdict writes api_usage.
C21_GateBeforeHandler ==
    [][\A c \in Callers :
          /\ (pc'[c] = "handler" /\ pc[c] # "handler")
                => (pc[c] = "done" /\ verdict[c].valid)
          /\ response'[c].handled => verdict'[c].valid
          /\ (pc'[c] = "responded" /\ ~verdict'[c].valid)
                => /\ response'[c] =
                        IF api_key'[c] = << >>
                        THEN Answer(401, FALSE, "MISSING_API_KEY",
                                    "API key required", FALSE)
                        ELSE Answer(401, FALSE, "INVALID_API_KEY",
                                    verdict'[c].error, FALSE)
                   /\ pc[c] \in {"idle", "done", "responded"}
          /\ (pc'[c] # pc[c] /\ ~verdict'[c].valid)
                => api_usage' = api_usage]_vars

\* One request was answered MISSING_API_KEY, another INVALID_API_KEY as
\* deactivated or at its limit, with no usage logged.
C21_Witness ==
    \E c, d \in Callers :
        /\ Responded(c)
        /\ response[c].code = "MISSING_API_KEY"
        /\ Responded(d)
        /\ response[d].status = 401
        /\ response[d].error = ErrLimit
        /\ api_usage = << >>

\* C22: two requests rejected for different reasons among format, not
\* found, deactivated, expired and limit are answered with different codes.
C22_DistinctCodes ==
    \A c, d \in Callers :
        (/\ Responded(c)
         /\ Responded(d)
         /\ api_key[c] # << >>
         /\ api_key[d] # << >>
         /\ ~verdict[c].valid
         /\ ~verdict[d].valid
         /\ verdict[c].error # verdict[d].error)
        => response[c].code # response[d].code

\* C30: a Valid verdict is returned at the commit of the increment of the
\* presented key's row (from 0 when the call reset it), the handler is
\* entered at the append of the request's usage row, and the handler's
\* answer, whatever its status, comes after both and changes neither table.
C30_ChargedBeforeHandler ==
    [][\A c \in Callers :
          /\ (pc'[c] = "done" /\ pc[c] # "done" /\ verdict'[c].valid)
                => /\ pc[c] = "commit"
                   /\ \A i \in Matches(api_keys, Sha256(api_key[c])) :
                         api_keys'[i].requests_made =
                            (IF resetPending[c] THEN 0
                             ELSE api_keys[i].requests_made) + 1
          /\ (pc'[c] = "handler" /\ pc[c] # "handler")
                => /\ pc[c] = "done"
                   /\ verdict[c].valid
                   /\ Len(api_usage') = Len(api_usage) + 1
                   /\ SubSeq(api_usage', 1, Len(api_usage)) = api_usage
                   /\ api_usage'[Len(api_usage')].key_id
                         = Prefix(api_key[c], KeyIdLen)
          /\ (response'[c].handled /\ ~response[c].handled)
                => /\ pc[c] = "handler"
                   /\ api_keys' = api_keys
                   /\ api_usage' = api_usage]_vars

\* The handler answered 400 to a request on a free key that had one request
\* left: the row stands at its limit and the usage row is there.
C30_Witness ==
    \E c \in Callers :
        /\ Responded(c)
        /\ response[c].handled
        /\ response[c].status = 400
        /\ Len(pre[c]) = 1
        /\ pre[c][1].requests_made = FreeLimit - 1
        /\ api_keys[1].requests_made = FreeLimit
        /\ Len(api_usage) = 1
        /\ api_usage[1].key_id = api_keys[1].key_id

\* C24: a Valid verdict on a key with a finite limit that is not the key's
\* first of the calendar day reports one request less remaining than the
\* Valid verdict before it.
C24_OneUnitPerRequest ==
    [][\A i \in 1..Len(served) :
          (/\ served'[i] # served[i]
           /\ api_keys[i].request_limit > 0
           /\ served[i].valid >= 1
           /\ served[i].day = Day(now))
          => served'[i].remaining = served[i].remaining - 1]_vars

\* C25: the Valid verdict of a call on a key with a finite limit reports
\* max(0, request_limit - r), r the requests_made stored by the commit that
\* returns it.
C25_RemainingMatchesStore ==
    [][\A c \in Callers :
          (/\ pc[c] = "commit"
           /\ pc'[c] = "done"
           /\ row[c].request_limit > 0)
          => /\ verdict'[c].valid
             /\ \A i \in Matches(api_keys, Sha256(api_key[c])) :
                   verdict'[c].requests_remaining =
                      Max(0, row[c].request_limit
                               - api_keys'[i].requests_made)]_vars

\* C26: a call on the credential of an active key at or after its
\* expires_at, the instant now = expires_at included, returns "API key has
\* expired" (and so does, the clock never going back, every later call).
C26_ExpiredAtInstant ==
    \A c \in Callers :
        (/\ Done(c)
         /\ Sel(c) # {}
         /\ PreRow(c).is_active
         /\ PreRow(c).expires_at <= now)
        => verdict[c] = Invalid(ErrExpired)

\* C28: when the first 12 characters of the generated credential are the
\* key_id of a row, generate_api_key returns None and the table is as it
\* was, whether or not the credential is the one of that row.
C28_KeyIdConflict ==
    (/\ issue.called
     /\ \E i \in 1..Len(issue.pre) :
           issue.pre[i].key_id = Prefix(issue.api_key, KeyIdLen))
    => /\ issue.result = None
       /\ api_keys = issue.pre

\* A credential of a new hash and a stored key_id was refused.
C28_Witness ==
    /\ issue.called
    /\ Len(issue.pre) = 1
    /\ Holding(issue.pre, issue.api_key) = {}
    /\ issue.pre[1].key_id = Prefix(issue.api_key, KeyIdLen)
    /\ issue.result = None
    /\ Len(api_keys) = 1

\* C29: on the issuance day of a key, when no call is in progress, its
\* stored requests_made is the number of Valid verdicts returned for it.
C29_NoLostIncrement ==
    (\A c \in Callers : pc[c] \in {"idle", "done"})
    => \A i \in 1..Len(api_keys) :
          Day(api_keys[i].created_at) = Day(now)
              => api_keys[i].requests_made = served[i].valid

\* Two calls that both read requests_made = 0 of a key issued today have
\* both returned Valid, and the row counts 2.
C29_Witness ==
    /\ Len(api_keys) = 1
    /\ Day(api_keys[1].created_at) = Day(now)
    /\ api_keys[1].requests_made = 2
    /\ served[1].valid = 2
    /\ \A c \in Callers :
          /\ Done(c)
          /\ verdict[c].valid
          /\ Len(pre[c]) = 1
          /\ pre[c][1].requests_made = 0

\* C27: a call of which a statement met a storage fault ends with the
\* exception and no verdict, with the table as it was when the call began
\* and the write lock free.
C27_FaultLeavesStore ==
    \A c \in Callers :
        (faulted[c] /\ pc[c] \in {"done", "raised"})
        => /\ pc[c] = "raised"
           /\ verdict[c] = NoVerdict
           /\ api_keys = pre[c]
           /\ writer = 0

\* C23 helper: the body is one the claim lets a key be persisted for.
WellFormed(b) ==
    /\ b.email.kind = "str" /\ Strip(b.email.chars) # << >>
    /\ b.name.kind = "str" /\ Strip(b.name.chars) # << >>
    /\ Contains(b.email.chars, "@") /\ Contains(b.email.chars, ".")
    /\ \/ b.plan = Absent
       \/ /\ b.plan.kind = "str"
          /\ \E p \in Plans : Spelling[p] = Strip(b.plan.chars)

\* C23: when create_api_key has answered, a key was persisted only for a
\* well-formed body, and a body that is not well-formed was answered with
\* status 400 and the table is as it was.
C23_EndpointValidates ==
    \A c \in Callers :
        (pc[c] = "responded" /\ body[c] # NoBody)
        => /\ api_keys # pre[c] => WellFormed(body[c])
           /\ ~WellFormed(body[c])
                 => response[c].status = 400 /\ api_keys = pre[c]

=============================================================================
